---- MODULE Spec2Model ----
(***************************************************************************)
(* A model of src/sys/fd.rs: FileDesc, the owning wrapper of a raw file    *)
(* descriptor, its close-on-exec operations, duplicate() with the          *)
(* process-wide TRY_CLOEXEC capability flag, into_raw() and Drop.          *)
(*                                                                         *)
(* Every syscall the code issues is one step of the calling thread, so     *)
(* that calls of several threads interleave between syscalls.  The kernel  *)
(* side (descriptor table, lowest-free allocation, per-descriptor flags)   *)
(* is modelled as far as the code depends on it; every syscall may fail    *)
(* with one of the errnos of its manual page.                              *)
(***************************************************************************)
EXTENDS Integers, Naturals, Sequences, FiniteSets, TLC

\* ---- bounds of the model: the threads; the operations begun in a run (an
\* open by the caller, FileDesc::new, get_cloexec, set_cloexec, duplicate;
\* into_raw and drop consume a FileDesc and are bounded by the FileDescs
\* built); the descriptor numbers
NThreads == 2
MaxOps == 2
MaxFd == 2

\* ---- program constants
FD_CLOEXEC == 1

Threads == 1..NThreads
Fds == 0..(MaxFd - 1)
Handles == 1..(MaxOps + 1)

VARIABLES
    TRY_CLOEXEC,  \* static TRY_CLOEXEC: AtomicBool
    fdtab,        \* the process's descriptor table, as the kernel keeps it
    hstatus,      \* each FileDesc value: none | local | live | dropped | raw
    hfd,          \* FileDesc.fd
    closes,       \* close syscalls issued for each FileDesc value
    closeFailed,  \* whether a close issued for the value reported an error
    rawOut,       \* the integer into_raw returned for the value
    rawClosed,    \* a close has since been issued on that integer
    misuse,       \* some FileDesc::new was given a descriptor that was not open,
                  \* or one a FileDesc already owned
    lastSet,      \* F_SETFD calls issued by the last set_cloexec on the value that
                  \* returned Ok; -1 when none has
    th,           \* each thread's position in the call it is executing
    gh,           \* per call: what the call has issued so far
    ops,          \* operations begun so far
    storers       \* threads that have stored to TRY_CLOEXEC

vars == <<TRY_CLOEXEC, fdtab, hstatus, hfd, closes, closeFailed, rawOut,
          rawClosed, misuse, lastSet, th, gh, ops, storers>>

\* ---- io::Result values
NoRet == [kind |-> "none", val |-> 0, errno |-> "none", from |-> "none"]
Ok(v) == [kind |-> "ok", val |-> v, errno |-> "none", from |-> "none"]
Err(e, call) == [kind |-> "err", val |-> 0, errno |-> e, from |-> call]

\* ---- errnos each syscall can report
SyscallErrors(call) ==
    CASE call = "F_DUPFD_CLOEXEC" -> {"EINVAL", "EMFILE", "EBADF"}
      [] call = "F_DUPFD" -> {"EINVAL", "EMFILE", "EBADF"}
      [] call = "F_GETFD" -> {"EBADF"}
      [] call = "F_SETFD" -> {"EBADF"}
      [] call = "close" -> {"EIO", "EBADF"}

\* ---- bit operations on descriptor flags, for a one-bit mask m
BitAnd(flags, m) == ((flags \div m) % 2) * m
BitOr(flags, m) == flags + m - BitAnd(flags, m)

\* ---- the kernel's descriptor table
ClosedEntry == [open |-> FALSE, flags |-> 0, by |-> 0]
FreeFds(tab) == {f \in Fds : ~tab[f].open}
LowestFree(tab) == CHOOSE f \in FreeFds(tab) : \A g \in FreeFds(tab) : f <= g
KAlloc(tab, f, flags, h) ==
    [tab EXCEPT ![f] = [open |-> TRUE, flags |-> flags, by |-> h]]
KSetfd(tab, f, flags) == [tab EXCEPT ![f].flags = flags]
KClose(tab, f) == [tab EXCEPT ![f] = ClosedEntry]

\* ---- FileDesc values
FreeHandles == {h \in Handles : hstatus[h] = "none"}
NewHandle == CHOOSE h \in FreeHandles : \A g \in FreeHandles : h <= g
\* Threads are interchangeable: a call is begun by the first idle one.
CanBegin(t) == th[t].pc = "idle" /\ \A u \in Threads : u < t => th[u].pc # "idle"
Borrowed(h) == \E t \in Threads : th[t].pc # "idle" /\ th[t].self = h

IdleTh == [pc |-> "idle", op |-> "none", self |-> 0, nh |-> 0,
           previous |-> 0, ret |-> NoRet]
G0 == [startFlag |-> TRUE, prevAtCall |-> -1, nAtomic |-> 0, nPlain |-> 0,
       nStore |-> 0, nSetCx |-> 0, nGetfd |-> 0, nSetfd |-> 0,
       atomicErr |-> "none", kflags |-> 0]

\* The process starts with descriptor 0 open, with or without close-on-exec,
\* and one FileDesc built on it by FileDesc::new(0).
Init ==
    /\ TRY_CLOEXEC = TRUE
    /\ \E flags \in {0, FD_CLOEXEC} :
         fdtab = KAlloc([f \in Fds |-> ClosedEntry], 0, flags, 0)
    /\ hstatus = [h \in Handles |-> IF h = 1 THEN "live" ELSE "none"]
    /\ hfd = [h \in Handles |-> IF h = 1 THEN 0 ELSE -1]
    /\ closes = [h \in Handles |-> 0]
    /\ closeFailed = [h \in Handles |-> FALSE]
    /\ rawOut = [h \in Handles |-> -1]
    /\ rawClosed = [h \in Handles |-> FALSE]
    /\ misuse = FALSE
    /\ lastSet = [h \in Handles |-> -1]
    /\ th = [t \in Threads |-> IdleTh]
    /\ gh = [t \in Threads |-> G0]
    /\ ops = 0
    /\ storers = {}

\* The caller's open, socket or pipe: the kernel allocates the lowest free
\* descriptor, with or without close-on-exec.  No FileDesc is involved.
EnvOpen ==
    /\ ops < MaxOps
    /\ ops' = ops + 1
    /\ FreeFds(fdtab) # {}
    /\ \E flags \in {0, FD_CLOEXEC} :
         fdtab' = KAlloc(fdtab, LowestFree(fdtab), flags, 0)
    /\ UNCHANGED <<TRY_CLOEXEC, hstatus, hfd, closes, closeFailed, rawOut, rawClosed,
                   misuse, lastSet, th, gh, storers>>

\* The number fd is held by a FileDesc that exists.
Held(fd) == \E g \in Handles : hstatus[g] \in {"local", "live"} /\ hfd[g] = fd

\* FileDesc::new(fd): FileDesc { fd }, for any number: no syscall is issued
\* and nothing is checked.
New(fd) ==
    /\ ops < MaxOps
    /\ ops' = ops + 1
    /\ FreeHandles # {}
    /\ hstatus' = [hstatus EXCEPT ![NewHandle] = "live"]
    /\ hfd' = [hfd EXCEPT ![NewHandle] = fd]
    /\ misuse' = (misuse \/ ~fdtab[fd].open \/ Held(fd))
    /\ UNCHANGED <<TRY_CLOEXEC, fdtab, closes, closeFailed, rawOut, rawClosed,
                   lastSet, th, gh, storers>>

\* into_raw(self): let fd = self.fd; mem::forget(self); fd
\* (faulty variant: the value is not forgotten, so its destructor closes fd)
IntoRawNoForget(h) ==
    /\ hstatus[h] = "live"
    /\ ~Borrowed(h)
    /\ hstatus' = [hstatus EXCEPT ![h] = "raw"]
    /\ rawOut' = [rawOut EXCEPT ![h] = hfd[h]]
    /\ lastSet' = [lastSet EXCEPT ![h] = -1]
    /\ closes' = [closes EXCEPT ![h] = @ + 1]
    /\ fdtab' = KClose(fdtab, hfd[h])
    /\ UNCHANGED <<ops, TRY_CLOEXEC, hfd, closeFailed, rawClosed, misuse, th, gh, storers>>
IntoRaw(h) ==
    /\ hstatus[h] = "live"
    /\ ~Borrowed(h)
    /\ hstatus' = [hstatus EXCEPT ![h] = "raw"]
    /\ rawOut' = [rawOut EXCEPT ![h] = hfd[h]]
    /\ lastSet' = [lastSet EXCEPT ![h] = -1]
    /\ UNCHANGED <<ops, TRY_CLOEXEC, fdtab, hfd, closes, closeFailed, rawClosed, misuse, th, gh,
                   storers>>

\* Drop::drop: let _ = syscall!(close(self.fd)).  On an open descriptor the
\* kernel releases it whether or not it reports an error (Linux); on a number
\* that is not open it reports EBADF.  The result is discarded.
\* (faulty variant: a close that reports an error is issued again)
DropEffectRetry(h) ==
    \E r \in (IF fdtab[hfd[h]].open THEN {"ok", "EIO"} ELSE {"EBADF"}) :
        /\ closes' = [closes EXCEPT ![h] = IF r # "ok" THEN @ + 2 ELSE @ + 1]
        /\ closeFailed' = [closeFailed EXCEPT ![h] = (r # "ok")]
        /\ fdtab' = KClose(fdtab, hfd[h])
        /\ rawClosed' = [g \in Handles |->
                           rawClosed[g] \/ (hstatus[g] = "raw" /\ rawOut[g] = hfd[h])]
        /\ hstatus' = [hstatus EXCEPT ![h] = "dropped"]
        /\ hfd' = [hfd EXCEPT ![h] = -1]
        /\ lastSet' = [lastSet EXCEPT ![h] = -1]
DropEffect(h) ==
    \E r \in (IF fdtab[hfd[h]].open THEN {"ok", "EIO"} ELSE {"EBADF"}) :
        /\ closes' = [closes EXCEPT ![h] = @ + 1]
        /\ closeFailed' = [closeFailed EXCEPT ![h] = (r # "ok")]
        /\ fdtab' = KClose(fdtab, hfd[h])
        /\ rawClosed' = [g \in Handles |->
                           rawClosed[g] \/ (hstatus[g] = "raw" /\ rawOut[g] = hfd[h])]
        /\ hstatus' = [hstatus EXCEPT ![h] = "dropped"]
        /\ hfd' = [hfd EXCEPT ![h] = -1]
        /\ lastSet' = [lastSet EXCEPT ![h] = -1]

\* A FileDesc value going out of scope.
Drop(h) ==
    /\ hstatus[h] = "live"
    /\ ~Borrowed(h)
    /\ DropEffect(h)
    /\ UNCHANGED <<ops, TRY_CLOEXEC, rawOut, misuse, th, gh, storers>>

\* get_cloexec(&self): (fcntl(fd, F_GETFD)? & FD_CLOEXEC) != 0
GetCloexec(t, h) ==
    /\ ops < MaxOps
    /\ ops' = ops + 1
    /\ CanBegin(t)
    /\ hstatus[h] = "live"
    /\ \E r \in {Ok(BitAnd(fdtab[hfd[h]].flags, FD_CLOEXEC) # 0) : x \in
                                  IF fdtab[hfd[h]].open THEN {0} ELSE {}}
               \cup {Err(e, "F_GETFD") : e \in SyscallErrors("F_GETFD")} :
         th' = [th EXCEPT ![t] = [IdleTh EXCEPT !.pc = "done", !.op = "get_cloexec",
                                                !.self = h, !.ret = r]]
    /\ gh' = [gh EXCEPT ![t] = [G0 EXCEPT !.prevAtCall = lastSet[h], !.nGetfd = 1]]
    /\ UNCHANGED <<TRY_CLOEXEC, fdtab, hstatus, hfd, closes, closeFailed, rawOut, rawClosed,
                   misuse, lastSet, storers>>

\* A caller entering set_cloexec(&self).
SetCloexecCall(t, h) ==
    /\ ops < MaxOps
    /\ ops' = ops + 1
    /\ CanBegin(t)
    /\ hstatus[h] = "live"
    /\ th' = [th EXCEPT ![t] = [IdleTh EXCEPT !.pc = "getfd", !.op = "set_cloexec",
                                              !.self = h]]
    /\ gh' = [gh EXCEPT ![t] = [G0 EXCEPT !.prevAtCall = lastSet[h], !.nSetCx = 1]]
    /\ UNCHANGED <<TRY_CLOEXEC, fdtab, hstatus, hfd, closes, closeFailed, rawOut, rawClosed,
                   misuse, lastSet, storers>>

\* The FileDesc a running set_cloexec acts on: self, or inside duplicate the
\* value make_filedesc has just built.
Target(t) == IF th[t].op = "duplicate" THEN th[t].nh ELSE th[t].self

\* let new = previous | FD_CLOEXEC; if new != previous { F_SETFD }
\* (faulty variants: the F_SETFD is never issued; it is issued whatever the
\* flags read)
SetfdNever(previous) == FALSE
SetfdAlways(previous) == TRUE
SetfdNeeded(previous) == BitOr(previous, FD_CLOEXEC) # previous

\* set_cloexec returning r to the code that called it: to the caller of
\* set_cloexec, or into make_filedesc, where `?` returns the error (the
\* FileDesc built there is then dropped) and Ok(fd) is duplicate's result.
SetCloexecReturn(t, r) ==
    /\ th' = [th EXCEPT ![t] =
                IF th[t].op = "duplicate"
                THEN IF r.kind = "ok"
                     THEN [@ EXCEPT !.pc = "done", !.ret = Ok(th[t].nh)]
                     ELSE [@ EXCEPT !.pc = "mk_drop", !.ret = r]
                ELSE [@ EXCEPT !.pc = "done", !.ret = r]]
    /\ lastSet' = IF r.kind = "ok"
                  THEN [lastSet EXCEPT ![Target(t)] = gh'[t].nSetfd]
                  ELSE lastSet

\* set_cloexec, first syscall: let previous = syscall!(fcntl(fd, F_GETFD))?
Getfd(t) ==
    /\ th[t].pc = "getfd"
    /\ gh' = [gh EXCEPT ![t].nGetfd = @ + 1]
    /\ \/ \E e \in SyscallErrors("F_GETFD") : SetCloexecReturn(t, Err(e, "F_GETFD"))
       \/ LET previous == fdtab[hfd[Target(t)]].flags
          IN /\ fdtab[hfd[Target(t)]].open
             /\ IF SetfdNeeded(previous)
                THEN /\ th' = [th EXCEPT ![t].pc = "setfd", ![t].previous = previous]
                     /\ UNCHANGED lastSet
                ELSE SetCloexecReturn(t, Ok(0))
    /\ UNCHANGED <<ops, TRY_CLOEXEC, fdtab, hstatus, hfd, closes, closeFailed, rawOut,
                   rawClosed, misuse, storers>>

\* set_cloexec, second syscall: syscall!(fcntl(fd, F_SETFD, new))?; Ok(())
Setfd(t) ==
    /\ th[t].pc = "setfd"
    /\ gh' = [gh EXCEPT ![t].nSetfd = @ + 1]
    /\ \/ /\ \E e \in SyscallErrors("F_SETFD") : SetCloexecReturn(t, Err(e, "F_SETFD"))
          /\ UNCHANGED fdtab
       \/ /\ fdtab[hfd[Target(t)]].open
          /\ fdtab' = KSetfd(fdtab, hfd[Target(t)], BitOr(th[t].previous, FD_CLOEXEC))
          /\ SetCloexecReturn(t, Ok(0))
    /\ UNCHANGED <<ops, TRY_CLOEXEC, hstatus, hfd, closes, closeFailed, rawOut,
                   rawClosed, misuse, storers>>

\* A caller entering duplicate(&self).
DupCall(t, h) ==
    /\ ops < MaxOps
    /\ ops' = ops + 1
    /\ CanBegin(t)
    /\ hstatus[h] = "live"
    /\ th' = [th EXCEPT ![t] = [IdleTh EXCEPT !.pc = "dup_load", !.op = "duplicate",
                                              !.self = h]]
    /\ gh' = [gh EXCEPT ![t] = [G0 EXCEPT !.startFlag = TRY_CLOEXEC]]
    /\ UNCHANGED <<TRY_CLOEXEC, fdtab, hstatus, hfd, closes, closeFailed, rawOut, rawClosed,
                   misuse, lastSet, storers>>

\* if TRY_CLOEXEC.load(Ordering::Relaxed) { ... }.  TRY_CLOEXEC is one atomic
\* location: a load returns the value of the latest store to it.
\* (faulty variant: the flag is not consulted)
DupLoadAlways(t) ==
    /\ th[t].pc = "dup_load"
    /\ th' = [th EXCEPT ![t].pc = "dup_atomic"]
    /\ UNCHANGED <<ops, TRY_CLOEXEC, fdtab, hstatus, hfd, closes, closeFailed, rawOut, rawClosed,
                   misuse, lastSet, gh, storers>>
DupLoad(t) ==
    /\ th[t].pc = "dup_load"
    /\ th' = [th EXCEPT ![t].pc = IF TRY_CLOEXEC THEN "dup_atomic" ELSE "dup_plain"]
    /\ UNCHANGED <<ops, TRY_CLOEXEC, fdtab, hstatus, hfd, closes, closeFailed, rawOut, rawClosed,
                   misuse, lastSet, gh, storers>>

\* make_filedesc(fd), entered with the descriptor the kernel has just
\* allocated (with `flags`, by the call `via`): FileDesc::new(fd), then
\* fd.set_cloexec()?
\* (faulty variant: the kernel's answer is trusted and set_cloexec left out)
MakeFiledescNoSet(t, flags, via) ==
    LET f == LowestFree(fdtab)
        h == NewHandle
    IN /\ fdtab' = KAlloc(fdtab, f, flags, h)
       /\ hstatus' = [hstatus EXCEPT ![h] = "local"]
       /\ hfd' = [hfd EXCEPT ![h] = f]
       /\ th' = [th EXCEPT ![t].pc = "done", ![t].nh = h, ![t].ret = Ok(h)]
       /\ UNCHANGED gh
MakeFiledesc(t, flags, via) ==
    LET f == LowestFree(fdtab)
        h == NewHandle
    IN /\ fdtab' = KAlloc(fdtab, f, flags, h)
       /\ hstatus' = [hstatus EXCEPT ![h] = "local"]
       /\ hfd' = [hfd EXCEPT ![h] = f]
       /\ th' = [th EXCEPT ![t].pc = "getfd", ![t].nh = h]
       /\ gh' = [gh EXCEPT ![t].nSetCx = @ + 1,
                           ![t].nAtomic = IF via = "F_DUPFD_CLOEXEC" THEN @ + 1 ELSE @,
                           ![t].nPlain = IF via = "F_DUPFD" THEN @ + 1 ELSE @,
                           ![t].kflags = flags]

\* Err(ref e) if e.raw_os_error() == Some(libc::EINVAL)
\* (faulty variants: every error is taken for it; none is)
IsUnsupportedAny(e) == TRUE
IsUnsupportedNever(e) == FALSE
IsUnsupported(e) == e = "EINVAL"

\* match syscall!(fcntl(fd, F_DUPFD_CLOEXEC, 0)): the kernel allocates the
\* lowest free descriptor, with close-on-exec set, or (kernels that report
\* success without setting it) unset.
DupAtomic(t) ==
    /\ th[t].pc = "dup_atomic"
    /\ \/ /\ FreeFds(fdtab) # {}
          /\ FreeHandles # {}
          /\ fdtab[hfd[th[t].self]].open
          /\ \E flags \in {FD_CLOEXEC, 0} : MakeFiledesc(t, flags, "F_DUPFD_CLOEXEC")
       \/ /\ \E e \in SyscallErrors("F_DUPFD_CLOEXEC") :
               /\ th' = [th EXCEPT ![t] =
                           IF IsUnsupported(e)
                           THEN [@ EXCEPT !.pc = "dup_store"]
                           ELSE [@ EXCEPT !.pc = "done",
                                          !.ret = Err(e, "F_DUPFD_CLOEXEC")]]
               /\ gh' = [gh EXCEPT ![t].nAtomic = @ + 1, ![t].atomicErr = e]
          /\ UNCHANGED <<fdtab, hstatus, hfd>>
    /\ UNCHANGED <<ops, TRY_CLOEXEC, closes, closeFailed, rawOut, rawClosed, misuse, lastSet, storers>>

\* TRY_CLOEXEC.store(false, Ordering::Relaxed), then fall out of the match
\* (faulty variant: true is stored)
DupStoreTrue(t) ==
    /\ th[t].pc = "dup_store"
    /\ TRY_CLOEXEC' = TRUE
    /\ storers' = storers \cup {t}
    /\ th' = [th EXCEPT ![t].pc = "dup_plain"]
    /\ gh' = [gh EXCEPT ![t].nStore = @ + 1]
    /\ UNCHANGED <<ops, fdtab, hstatus, hfd, closes, closeFailed, rawOut, rawClosed, misuse, lastSet>>
DupStore(t) ==
    /\ th[t].pc = "dup_store"
    /\ TRY_CLOEXEC' = FALSE
    /\ storers' = storers \cup {t}
    /\ th' = [th EXCEPT ![t].pc = "dup_plain"]
    /\ gh' = [gh EXCEPT ![t].nStore = @ + 1]
    /\ UNCHANGED <<ops, fdtab, hstatus, hfd, closes, closeFailed, rawOut, rawClosed, misuse, lastSet>>

\* syscall!(fcntl(fd, libc::F_DUPFD, 0)).and_then(make_filedesc): the kernel
\* allocates the lowest free descriptor, close-on-exec unset.
DupPlain(t) ==
    /\ th[t].pc = "dup_plain"
    /\ \/ /\ FreeFds(fdtab) # {}
          /\ FreeHandles # {}
          /\ fdtab[hfd[th[t].self]].open
          /\ MakeFiledesc(t, 0, "F_DUPFD")
       \/ /\ \E e \in SyscallErrors("F_DUPFD") :
               th' = [th EXCEPT ![t].pc = "done", ![t].ret = Err(e, "F_DUPFD")]
          /\ gh' = [gh EXCEPT ![t].nPlain = @ + 1]
          /\ UNCHANGED <<fdtab, hstatus, hfd>>
    /\ UNCHANGED <<ops, TRY_CLOEXEC, closes, closeFailed, rawOut, rawClosed, misuse, lastSet, storers>>

\* make_filedesc returning Err: the FileDesc it built goes out of scope.
\* (faulty variant: the FileDesc is forgotten instead of dropped)
MkDropLeak(t) ==
    /\ th[t].pc = "mk_drop"
    /\ th' = [th EXCEPT ![t].pc = "done"]
    /\ UNCHANGED <<ops, TRY_CLOEXEC, fdtab, hstatus, hfd, closes, closeFailed, rawOut, rawClosed,
                   misuse, lastSet, gh, storers>>
MkDrop(t) ==
    /\ th[t].pc = "mk_drop"
    /\ DropEffect(th[t].nh)
    /\ th' = [th EXCEPT ![t].pc = "done"]
    /\ UNCHANGED <<ops, TRY_CLOEXEC, rawOut, misuse, gh, storers>>

\* The call returns to its caller: the borrow of self ends, and the FileDesc
\* a successful duplicate returned is the caller's.
Return(t) ==
    /\ th[t].pc = "done"
    /\ hstatus' = IF th[t].op = "duplicate" /\ th[t].ret.kind = "ok"
                  THEN [hstatus EXCEPT ![th[t].nh] = "live"]
                  ELSE hstatus
    /\ th' = [th EXCEPT ![t] = IdleTh]
    /\ gh' = [gh EXCEPT ![t] = G0]
    /\ UNCHANGED <<ops, TRY_CLOEXEC, fdtab, hfd, closes, closeFailed, rawOut, rawClosed, misuse, lastSet, storers>>

Next ==
    \/ EnvOpen
    \/ \E fd \in Fds : New(fd)
    \/ \E h \in Handles : IntoRaw(h)
    \/ \E h \in Handles : Drop(h)
    \/ \E t \in Threads, h \in Handles : GetCloexec(t, h)
    \/ \E t \in Threads, h \in Handles : SetCloexecCall(t, h)
    \/ \E t \in Threads : Getfd(t)
    \/ \E t \in Threads : Setfd(t)
    \/ \E t \in Threads, h \in Handles : DupCall(t, h)
    \/ \E t \in Threads : DupLoad(t)
    \/ \E t \in Threads : DupAtomic(t)
    \/ \E t \in Threads : DupStore(t)
    \/ \E t \in Threads : DupPlain(t)
    \/ \E t \in Threads : MkDrop(t)
    \/ \E t \in Threads : Return(t)

Spec == Init /\ [][Next]_vars

\* ---------------------------------------------------------------------
\* Properties
\* ---------------------------------------------------------------------
HasCloexec(h) == BitAnd(fdtab[hfd[h]].flags, FD_CLOEXEC) # 0
InDup(t) == th[t].op = "duplicate"

\* C1: a duplicate() that returns Ok returns the FileDesc it built, having
\* performed the explicit set_cloexec exactly once on it, on the atomic path
\* (whether or not the kernel set the flag) and on the fallback; and, every
\* FileDesc::new having been given an open descriptor nobody owned, its
\* descriptor number differs from self's, is open and has close-on-exec set.
C1_DuplicateOkCloexec ==
    \A t \in Threads :
        (InDup(t) /\ th[t].pc = "done" /\ th[t].ret.kind = "ok") =>
            /\ th[t].ret.val = th[t].nh
            /\ hstatus[th[t].nh] = "local"
            /\ hfd[th[t].nh] # hfd[th[t].self]
            /\ gh[t].nSetCx = 1
            /\ gh[t].nGetfd = 1
            /\ gh[t].nAtomic + gh[t].nPlain >= 1
            /\ ~misuse => /\ fdtab[hfd[th[t].nh]].open
                          /\ HasCloexec(th[t].nh)
\* C1's case: the atomic call succeeded, the kernel had not set the flag, and
\* duplicate() returned Ok.
C1_Witness ==
    \E t \in Threads :
        /\ ~misuse
        /\ InDup(t) /\ th[t].pc = "done" /\ th[t].ret.kind = "ok"
        /\ gh[t].nAtomic = 1 /\ gh[t].nPlain = 0
        /\ BitAnd(gh[t].kflags, FD_CLOEXEC) = 0
        /\ gh[t].nSetfd = 1
        /\ HasCloexec(th[t].nh)

\* C2: a FileDesc destroyed by going out of scope has had close issued exactly
\* once, also when that close reported an error; no FileDesc has close issued
\* more than once, and none that still exists or was consumed by into_raw
\* has had it issued at all.
C2_CloseExactlyOnce ==
    \A h \in Handles :
        /\ closes[h] <= 1
        /\ hstatus[h] = "dropped" => closes[h] = 1
        /\ hstatus[h] # "dropped" => closes[h] = 0 /\ ~closeFailed[h]
\* C2's case: a FileDesc was dropped and its close reported an error.
C2_Witness ==
    \E h \in Handles : hstatus[h] = "dropped" /\ closeFailed[h] /\ closes[h] = 1

\* C3: for a FileDesc consumed by into_raw the destructor never fires: no close
\* is ever issued for that value, and the integer returned is the one it was
\* created with.  A close issued on that integer afterwards is the drop of a
\* different FileDesc, built anew by FileDesc::new on the same number.
C3_IntoRawNoClose ==
    \A h \in Handles :
        hstatus[h] = "raw" =>
            /\ closes[h] = 0
            /\ ~closeFailed[h]
            /\ rawOut[h] = hfd[h]
            /\ rawOut[h] \in Fds
            /\ rawClosed[h] =>
                  \E g \in Handles \ {h} : hstatus[g] = "dropped" /\ closes[g] = 1
\* C3's case: into_raw has consumed a FileDesc built on an open descriptor,
\* no close has been issued for it, and the descriptor is still open.
C3_Witness ==
    \E h \in Handles :
        /\ ~misuse
        /\ hstatus[h] = "raw" /\ rawOut[h] = hfd[h]
        /\ closes[h] = 0 /\ ~rawClosed[h]
        /\ fdtab[rawOut[h]].open

\* C4: a duplicate() entered when TRY_CLOEXEC is already false never issues
\* F_DUPFD_CLOEXEC; the descriptor it obtains comes from the plain F_DUPFD.
C4_NoAtomicAfterDowngrade ==
    \A t \in Threads :
        (InDup(t) /\ ~gh[t].startFlag) =>
            /\ gh[t].nAtomic = 0
            /\ gh[t].nStore = 0
            /\ th[t].pc \notin {"dup_atomic", "dup_store"}
            /\ th[t].nh # 0 => gh[t].nPlain = 1
\* C4's case: a duplicate() entered after the downgrade has returned Ok.
C4_Witness ==
    \E t \in Threads :
        /\ InDup(t) /\ ~gh[t].startFlag
        /\ th[t].pc = "done" /\ th[t].ret.kind = "ok"
        /\ gh[t].nPlain = 1

\* C5 as claimed: a duplicate() whose atomic attempt failed with EINVAL has,
\* when it returns, stored to the flag once, issued one F_DUPFD and one
\* set_cloexec, and does not return the atomic attempt's error.
C5_Original ==
    \A t \in Threads :
        (InDup(t) /\ th[t].pc = "done" /\ gh[t].atomicErr = "EINVAL") =>
            /\ gh[t].nStore = 1
            /\ gh[t].nPlain = 1
            /\ gh[t].nSetCx = 1
            /\ th[t].ret.from # "F_DUPFD_CLOEXEC"
\* C5 amended: a duplicate() whose atomic attempt failed with EINVAL stores
\* false to the flag, then issues exactly one F_DUPFD; when the F_DUPFD
\* succeeds it performs exactly one set_cloexec, on the descriptor obtained;
\* when the F_DUPFD fails it performs none and returns the F_DUPFD's error.
\* The atomic attempt's EINVAL is never the value returned.
C5_EinvalFallsBack ==
    \A t \in Threads :
        (InDup(t) /\ gh[t].atomicErr = "EINVAL") =>
            /\ gh[t].nAtomic = 1
            /\ th[t].pc \in {"dup_store", "dup_plain", "getfd", "setfd", "mk_drop", "done"}
            /\ th[t].pc = "dup_store" => gh[t].nStore = 0 /\ gh[t].nPlain = 0
            /\ th[t].pc # "dup_store" => gh[t].nStore = 1 /\ ~TRY_CLOEXEC
            /\ th[t].pc = "dup_plain" => gh[t].nPlain = 0 /\ gh[t].nSetCx = 0
            /\ th[t].pc \in {"getfd", "setfd", "mk_drop", "done"} => gh[t].nPlain = 1
            /\ th[t].nh # 0 => gh[t].nSetCx = 1 /\ Target(t) = th[t].nh
            /\ th[t].pc = "done" =>
                  /\ th[t].ret.from # "F_DUPFD_CLOEXEC"
                  /\ th[t].nh = 0 =>
                        /\ gh[t].nSetCx = 0
                        /\ th[t].ret.kind = "err"
                        /\ th[t].ret.from = "F_DUPFD"
\* C5's case: the atomic attempt failed with EINVAL and the call went on to
\* return Ok from the fallback.
C5_Witness ==
    \E t \in Threads :
        /\ InDup(t) /\ gh[t].atomicErr = "EINVAL"
        /\ th[t].pc = "done" /\ th[t].ret.kind = "ok"
        /\ gh[t].nPlain = 1 /\ gh[t].nSetCx = 1 /\ gh[t].nStore = 1

\* C6 (state part): a duplicate() whose atomic attempt failed with an error
\* other than EINVAL returns that error, has issued no F_DUPFD, built no
\* FileDesc and stored nothing to the flag.
C6_OtherErrorState ==
    \A t \in Threads :
        (InDup(t) /\ gh[t].atomicErr \notin {"none", "EINVAL"}) =>
            /\ th[t].pc = "done"
            /\ th[t].ret = Err(gh[t].atomicErr, "F_DUPFD_CLOEXEC")
            /\ gh[t].nPlain = 0
            /\ gh[t].nStore = 0
            /\ gh[t].nSetCx = 0
            /\ th[t].nh = 0
\* C6: the state part above holds always, and the step in which the atomic
\* attempt fails with an error other than EINVAL does not change TRY_CLOEXEC.
C6_OtherErrorPropagates ==
    /\ []C6_OtherErrorState
    /\ [][\A t \in Threads :
            (th[t].pc = "dup_atomic" /\ th'[t].pc = "done") =>
                TRY_CLOEXEC' = TRY_CLOEXEC]_vars
\* C6's case: the atomic attempt has failed with EMFILE while the flag is
\* still true.
C6_Witness ==
    \E t \in Threads :
        /\ InDup(t) /\ gh[t].atomicErr = "EMFILE" /\ th[t].pc = "done"
        /\ TRY_CLOEXEC

\* C7: on a descriptor the FileDesc alone owns (every FileDesc::new having
\* been given an open descriptor nobody owned): once a set_cloexec on it has
\* returned Ok, a get_cloexec begun afterwards that returns Ok returns true,
\* and a set_cloexec begun afterwards issues the F_GETFD query only, so the
\* two calls together issue at most one F_SETFD.  No set_cloexec issues more
\* than one F_GETFD or F_SETFD.
C7_SetCloexecIdempotent ==
    /\ \A t \in Threads :
          th[t].op = "set_cloexec" => gh[t].nGetfd <= 1 /\ gh[t].nSetfd <= 1
    /\ ~misuse =>
        /\ \A h \in Handles :
              (hstatus[h] \in {"local", "live"} /\ lastSet[h] >= 0) => HasCloexec(h)
        /\ \A t \in Threads :
            /\ (th[t].op = "get_cloexec" /\ gh[t].prevAtCall >= 0
                    /\ th[t].ret.kind = "ok") => th[t].ret.val = TRUE
            /\ (th[t].op = "set_cloexec" /\ gh[t].prevAtCall >= 0) =>
                    /\ gh[t].nSetfd = 0
                    /\ th[t].pc # "setfd"
                    /\ gh[t].prevAtCall + gh[t].nSetfd <= 1
\* C7's case: a set_cloexec that followed one that had issued F_SETFD has
\* returned Ok.
C7_Witness ==
    \E t \in Threads :
        /\ ~misuse
        /\ th[t].op = "set_cloexec" /\ gh[t].prevAtCall = 1
        /\ th[t].pc = "done" /\ th[t].ret.kind = "ok"
        /\ gh[t].nGetfd = 1 /\ gh[t].nSetfd = 0

\* C8 as claimed: a descriptor a running duplicate() has allocated is never
\* in the descriptor table with close-on-exec unset (every FileDesc::new
\* having been given an open descriptor nobody owned).
C8_Original ==
    ~misuse => \A h \in Handles : hstatus[h] = "local" => HasCloexec(h)
\* C8 amended: the descriptor duplicate() allocates is never in the table with
\* close-on-exec unset when it comes from an F_DUPFD_CLOEXEC that set the
\* flag.  When it comes from the plain F_DUPFD, or from an F_DUPFD_CLOEXEC
\* that reported success without setting the flag, it is in the table with
\* the flag unset from its allocation until the call's own F_SETFD (or its
\* close on failure), and never once duplicate() has returned.
C8_WindowOnlyOnFallback ==
    ~misuse =>
        \A t \in Threads :
            (InDup(t) /\ th[t].nh # 0 /\ hstatus[th[t].nh] = "local") =>
                /\ fdtab[hfd[th[t].nh]].open
                /\ fdtab[hfd[th[t].nh]].by = th[t].nh
                /\ ~HasCloexec(th[t].nh) =>
                      /\ gh[t].nPlain = 1 \/ BitAnd(gh[t].kflags, FD_CLOEXEC) = 0
                      /\ th[t].pc \in {"getfd", "setfd", "mk_drop"}
\* C8's case: the fallback F_DUPFD has allocated the descriptor and the
\* call's F_SETFD has not yet been issued.
C8_Witness ==
    \E t \in Threads :
        /\ ~misuse
        /\ InDup(t) /\ gh[t].nPlain = 1 /\ th[t].pc = "setfd"
        /\ hstatus[th[t].nh] = "local"
        /\ fdtab[hfd[th[t].nh]].open /\ ~HasCloexec(th[t].nh)

\* C9: TRY_CLOEXEC starts true, no step takes it from false to true, and
\* once any thread has stored to it, it is false however many have.
C9_FlagMonotone ==
    /\ TRY_CLOEXEC = TRUE
    /\ [][TRY_CLOEXEC' => TRY_CLOEXEC]_vars
    /\ [](storers # {} => ~TRY_CLOEXEC)
\* C9's case: two threads have both observed EINVAL and stored.
C9_Witness ==
    Cardinality(storers) >= 2 /\ ~TRY_CLOEXEC

\* C10: duplicate() issues no close for self.  When it returns Err after
\* having obtained a descriptor, the error is set_cloexec's, the FileDesc
\* built on that descriptor has been dropped with close issued exactly once,
\* and no descriptor that call allocated is still open; when it returns Err
\* without having obtained one, it has closed nothing.  Every FileDesc::new
\* having been given an open descriptor nobody owned, self's descriptor is
\* open throughout.
C10_FailedDupClosesNew ==
    \A t \in Threads :
        InDup(t) =>
            /\ hstatus[th[t].self] = "live"
            /\ closes[th[t].self] = 0
            /\ ~misuse => fdtab[hfd[th[t].self]].open
            /\ (th[t].pc = "done" /\ th[t].ret.kind = "err") =>
                  IF th[t].nh = 0
                  THEN /\ th[t].ret.from \in {"F_DUPFD_CLOEXEC", "F_DUPFD"}
                       /\ gh[t].nSetCx = 0
                  ELSE /\ th[t].ret.from \in {"F_GETFD", "F_SETFD"}
                       /\ hstatus[th[t].nh] = "dropped"
                       /\ closes[th[t].nh] = 1
                       /\ \A f \in Fds : fdtab[f].open => fdtab[f].by # th[t].nh
\* C10's case: the F_SETFD on the descriptor just obtained failed and
\* duplicate() has returned that error.
C10_Witness ==
    \E t \in Threads :
        /\ ~misuse
        /\ InDup(t) /\ th[t].pc = "done" /\ th[t].ret.kind = "err"
        /\ th[t].ret.from = "F_SETFD"
        /\ th[t].nh # 0 /\ closes[th[t].nh] = 1
====
